---- MODULE Spec2Model ----
(***************************************************************************)
(* Model of ophyd/scaler.py: the field-set generators _scaler_fields and   *)
(* _sc_chans, ScalerChannel.match_name, and ScalerCH (construction,        *)
(* match_names, select_channels).                                          *)
(*                                                                         *)
(* Python strings are TLA+ strings; formatting is string concatenation.    *)
(* An OrderedDict is a sequence of [key, val] records with dict            *)
(* assignment semantics.  A Python value whose type matters is a record    *)
(* [t, v, ch]: t = "str" with text v, or t = "signal" bound to the name    *)
(* PV of channel ch.                                                       *)
(***************************************************************************)
EXTENDS Integers, Sequences, FiniteSets, TLC

\* range(1, 33): the channel range of every field family of the scaler.
RangeStop == 33

\* Number of ScalerChannel sub-devices of the modelled ScalerCH (32 in the
\* source; the device model is explored for a smaller collection).
NumChannels == 2

\* Values the hardware name PVs (.NM{n}) take; "" is an unnamed channel.
HwNames == {"", "A", "B"}

\* The chan_names arguments select_channels is called with; "Z" is never a
\* live name.
RequestLists ==
    { <<>>, <<"A">>, <<"Z">>, <<"B", "A">>, <<"A", "A">>, <<"A", "B", "Z">> }

\* Name given to the ScalerCH device at construction (Device(prefix, name=...)).
ParentName == "sc"

VARIABLES
    hw,                  \* hw[n]: live value of the channel name PV .NM{n}
    phase,               \* "new" before ScalerCH.__init__ returned, then "ready"
    sname,               \* sname[attr]: display identity (.name) of channel attr's s signal
    read_attrs,          \* self.channels.read_attrs
    configuration_attrs, \* self.channels.configuration_attrs
    hints,               \* self.hints
    call,                \* the last call made and how it ended
    gen_family,          \* generator run: which field family is generated
    gen_i,               \* generator run: next value of the loop variable
    gen_defn,            \* generator run: the OrderedDict built so far
    gen_pc               \* generator run: "loop" or "done"

vars == <<hw, phase, sname, read_attrs, configuration_attrs, hints, call,
          gen_family, gen_i, gen_defn, gen_pc>>

devVars == <<hw, phase, sname, read_attrs, configuration_attrs, hints, call>>
genVars == <<gen_family, gen_i, gen_defn, gen_pc>>

-----------------------------------------------------------------------------
(* Field-set generators                                                    *)

\* defn[key] = val on an OrderedDict: replace in place, else append.
DictSet(defn, k, v) ==
    IF \E j \in 1..Len(defn) : defn[j].key = k
    THEN [j \in 1..Len(defn) |->
            IF defn[j].key = k THEN [key |-> k, val |-> v] ELSE defn[j]]
    ELSE Append(defn, [key |-> k, val |-> v])

\* '{attr}{i}'.format(attr=attr_base, i=i)
FormatAttr(attr_base, i) == attr_base \o ToString(i)

\* '{field}{i}'.format(field=field_base, i=i)
FormatSuffix(field_base, i) == field_base \o ToString(i)

\* As FormatAttr02d, with the zero padding forgotten ('{}{}').
FormatAttr02d_unpadded(attr_fix, k) == attr_fix \o ToString(k)

\* '{}{:02d}'.format(attr_fix, k), for k >= 0
FormatAttr02d(attr_fix, k) ==
    attr_fix \o (IF k < 10 THEN "0" ELSE "") \o ToString(k)

\* One iteration of the loop of _scaler_fields.
scaler_fields_step(defn, cls, attr_base, field_base, kind, i) ==
    DictSet(defn, FormatAttr(attr_base, i),
            [cls |-> cls, suffix |-> FormatSuffix(field_base, i), kind |-> kind])

\* One iteration of the loop of _sc_chans.
sc_chans_step(defn, attr_fix, k) ==
    DictSet(defn, FormatAttr02d(attr_fix, k),
            [cls |-> "ScalerChannel", suffix |-> "", ch_num |-> k, kind |-> "hinted"])

\* _sc_chans(attr_fix, range(lo, stop)), continuing from defn.
RECURSIVE sc_chans_from(_, _, _, _)
sc_chans_from(defn, attr_fix, k, stop) ==
    IF k >= stop THEN defn
    ELSE sc_chans_from(sc_chans_step(defn, attr_fix, k), attr_fix, k + 1, stop)

sc_chans(attr_fix, lo, stop) == sc_chans_from(<<>>, attr_fix, lo, stop)

\* The field families declared with the generators, in declaration order.
Families ==
    << [gen |-> "_scaler_fields", cls |-> "EpicsSignalRO", attr |-> "chan",
        field |-> ".S", kind |-> "hinted"],
       [gen |-> "_scaler_fields", cls |-> "EpicsSignal", attr |-> "name",
        field |-> ".NM", kind |-> "config"],
       [gen |-> "_scaler_fields", cls |-> "EpicsSignal", attr |-> "preset",
        field |-> ".PR", kind |-> "omitted"],
       [gen |-> "_scaler_fields", cls |-> "EpicsSignal", attr |-> "gate",
        field |-> ".G", kind |-> "omitted"],
       [gen |-> "_sc_chans", cls |-> "ScalerChannel", attr |-> "chan",
        field |-> "", kind |-> "hinted"] >>

-----------------------------------------------------------------------------
(* The ScalerCH device                                                     *)

\* channels = DDC(_sc_chans('chan', range(1, 33))), for NumChannels channels.
ChannelDefn == sc_chans("chan", 1, NumChannels + 1)

\* self.channels.component_names: the keys of the definition, in order.
component_names == [j \in 1..Len(ChannelDefn) |-> ChannelDefn[j].key]

ComponentSet == {component_names[j] : j \in 1..Len(component_names)}

\* The ch_num keyword the sub-device attr was declared with (self._ch_num).
ChNum(s) ==
    ChannelDefn[CHOOSE j \in 1..Len(ChannelDefn) : ChannelDefn[j].key = s].val.ch_num

\* Display identity the framework gives the sub-device attr of self.channels.
DeviceName(s) == ParentName \o "_channels_" \o s

PyStr(text) == [t |-> "str", v |-> text, ch |-> 0]
PySignal(n) == [t |-> "signal", v |-> "", ch |-> n]

\* getattr(self.channels, s).name: the sub-device's own display identity.
ChannelDotName(s) == PyStr(DeviceName(s))

\* getattr(self.channels, s).chname: the signal bound to {prefix}.NM{ch_num}.
ChannelDotChname(s) == PySignal(ChNum(s))

\* obj.get(): a signal reads its PV (the read of channel failAt fails); a str
\* has no such method.
DotGet(obj, hwv, failAt) ==
    IF obj.t = "signal"
    THEN IF obj.ch = failAt
         THEN [exc |-> "HardwareError", value |-> ""]
         ELSE [exc |-> "none", value |-> hwv[obj.ch]]
    ELSE [exc |-> "AttributeError", value |-> ""]

\* Truth value of a Python value in a condition.
Truthy(obj) == IF obj.t = "str" THEN obj.v # "" ELSE TRUE

\* As match_name, keeping the old identity when the channel is unnamed.
match_name_skip_unnamed(self, s, hwv, failAt) ==
    LET g == DotGet(ChannelDotChname(s), hwv, failAt)
    IN  IF g.exc # "none"
        THEN [self |-> self, exc |-> g.exc]
        ELSE [self |-> IF g.value = "" THEN self
                       ELSE [self EXCEPT !.sname[s] = g.value],
              exc |-> "none"]

\* ScalerChannel.match_name on channel s:  self.s.name = self.chname.get()
match_name(self, s, hwv, failAt) ==
    LET g == DotGet(ChannelDotChname(s), hwv, failAt)
    IN  IF g.exc # "none"
        THEN [self |-> self, exc |-> g.exc]
        ELSE [self |-> [self EXCEPT !.sname[s] = g.value], exc |-> "none"]

\* ScalerCH.match_names, from position j of component_names on.
RECURSIVE match_names_from(_, _, _, _)
match_names_from(self, j, hwv, failAt) ==
    IF j > Len(component_names) THEN [self |-> self, exc |-> "none"]
    ELSE LET r == match_name(self, component_names[j], hwv, failAt)
         IN  IF r.exc # "none" THEN r
             ELSE match_names_from(r.self, j + 1, hwv, failAt)

\* As match_names, also re-deriving the read set from the refreshed names.
match_names_reselecting(self, hwv, failAt) ==
    LET r == match_names_from(self, 1, hwv, failAt)
        named == SelectSeq(component_names, LAMBDA s : r.self.sname[s] # "")
    IN  [self |-> [r.self EXCEPT !.read_attrs = named], exc |-> r.exc]

match_names(self, hwv, failAt) == match_names_from(self, 1, hwv, failAt)

\* The loop of ScalerCH.__init__ collecting active_channels.
RECURSIVE active_channels_from(_, _)
active_channels_from(active, j) ==
    IF j > Len(component_names) THEN active
    ELSE LET ch_name == ChannelDotName(component_names[j])
         IN  active_channels_from(
                 IF Truthy(ch_name) THEN Append(active, ch_name.v) ELSE active,
                 j + 1)

\* Display identity of a signal before anything renames it.
DefaultSignalName(s) == DeviceName(s) \o "_s"

\* The object while super().__init__ builds it: no read set chosen yet.
NewSelf ==
    [sname |-> [s \in ComponentSet |-> DefaultSignalName(s)],
     read_attrs |-> <<>>,
     configuration_attrs |-> <<>>,
     hints |-> [set |-> FALSE, fields |-> <<>>]]

\* As ScalerCH_init, with the configuration read set left as built.
ScalerCH_init_read_only(hwv, failAt) ==
    LET built == match_names_from(NewSelf, 1, hwv, failAt)
    IN  IF built.exc # "none" THEN built
        ELSE [self |-> [built.self EXCEPT
                          !.read_attrs = active_channels_from(<<>>, 1)],
              exc |-> "none"]

\* ScalerCH.__init__: super().__init__ constructs every ScalerChannel in
\* declaration order (each ends with match_name), then the active list is
\* stored as both read sets.
ScalerCH_init(hwv, failAt) ==
    LET built == match_names_from(NewSelf, 1, hwv, failAt)
    IN  IF built.exc # "none" THEN built
        ELSE LET active_channels == active_channels_from(<<>>, 1)
             IN  [self |-> [built.self EXCEPT
                               !.read_attrs = active_channels,
                               !.configuration_attrs = active_channels],
                  exc |-> "none"]

\* name_map = {getattr(self.channels, s).name.get(): s for s in component_names},
\* from position j on; a dict is a sequence of [key, val], later keys overwrite.
RECURSIVE name_map_from(_, _, _, _)
name_map_from(map, j, hwv, failAt) ==
    IF j > Len(component_names) THEN [map |-> map, exc |-> "none"]
    ELSE LET s == component_names[j]
             g == DotGet(ChannelDotName(s), hwv, failAt)
         IN  IF g.exc # "none" THEN [map |-> map, exc |-> g.exc]
             ELSE name_map_from(DictSet(map, g.value, s), j + 1, hwv, failAt)

HasKey(map, k) == \E j \in 1..Len(map) : map[j].key = k
Lookup(map, k) == map[CHOOSE j \in 1..Len(map) : map[j].key = k].val

\* The loop over chan_names: read_attrs.append(name_map[ch]), KeyError turned
\* into RuntimeError.
RECURSIVE resolve_from(_, _, _, _)
resolve_from(attrs, map, chan_names, j) ==
    IF j > Len(chan_names) THEN [read_attrs |-> attrs, exc |-> "none"]
    ELSE IF ~HasKey(map, chan_names[j])
         THEN [read_attrs |-> attrs, exc |-> "RuntimeError"]
         ELSE resolve_from(Append(attrs, Lookup(map, chan_names[j])),
                           map, chan_names, j + 1)

\* As select_channels, reporting a failed refresh as its own RuntimeError.
select_channels_wrapping(self, chan_names, hwv, failAt) ==
    LET m == match_names(self, hwv, failAt)
    IN  [self |-> m.self,
         exc |-> IF m.exc # "none" THEN "RuntimeError" ELSE "AttributeError"]

\* ScalerCH.select_channels(chan_names).  failAt is the channel whose name PV
\* cannot be read during the call (0: every read succeeds).
select_channels(self, chan_names, hwv, failAt) ==
    LET m == match_names(self, hwv, failAt)
    IN  IF m.exc # "none" THEN m
        ELSE
        LET nm == name_map_from(<<>>, 1, hwv, failAt)
        IN  IF nm.exc # "none" THEN [self |-> m.self, exc |-> nm.exc]
            ELSE
            LET r == resolve_from(<<"chan01">>, nm.map, chan_names, 1)
            IN  IF r.exc # "none" THEN [self |-> m.self, exc |-> r.exc]
                ELSE [self |->
                        [m.self EXCEPT
                           !.read_attrs = r.read_attrs,
                           !.configuration_attrs = r.read_attrs,
                           !.hints = [set |-> TRUE,
                                      fields |->
                                        [k \in 1..(Len(r.read_attrs) - 1) |->
                                           m.self.sname[r.read_attrs[k + 1]]]]],
                      exc |-> "none"]

-----------------------------------------------------------------------------
(* The device as a state machine                                           *)

Self ==
    [sname |-> sname, read_attrs |-> read_attrs,
     configuration_attrs |-> configuration_attrs, hints |-> hints]

Store(self) ==
    /\ sname' = self.sname
    /\ read_attrs' = self.read_attrs
    /\ configuration_attrs' = self.configuration_attrs
    /\ hints' = self.hints

\* The record of a call; again: it repeats the call made just before it (same
\* method, same channel, both returned normally, nothing happened in between).
Call(op, names, s, failAt, exc) ==
    [op |-> op, names |-> names, s |-> s, failAt |-> failAt, exc |-> exc,
     again |-> /\ op \in {"match_name", "match_names"}
               /\ call.op = op /\ call.s = s
               /\ call.exc = "none" /\ exc = "none"]

NoCall ==
    [op |-> "none", names |-> <<>>, s |-> "", failAt |-> 0, exc |-> "none",
     again |-> FALSE]

Channels == 1..NumChannels
FailChoices == 0..NumChannels

Init ==
    /\ hw \in [Channels -> HwNames]
    /\ phase = "new"
    /\ sname = NewSelf.sname
    /\ read_attrs = NewSelf.read_attrs
    /\ configuration_attrs = NewSelf.configuration_attrs
    /\ hints = NewSelf.hints
    /\ call = NoCall
    /\ gen_family = 1
    /\ gen_i = 1
    /\ gen_defn = <<>>
    /\ gen_pc = "idle"

\* ScalerCH(prefix, name=ParentName): an exception leaves no object behind.
Construct(failAt) ==
    /\ phase = "new"
    /\ LET r == ScalerCH_init(hw, failAt)
       IN  /\ Store(IF r.exc = "none" THEN r.self ELSE NewSelf)
           /\ phase' = IF r.exc = "none" THEN "ready" ELSE "new"
           /\ call' = Call("__init__", <<>>, "", failAt, r.exc)
    /\ UNCHANGED <<hw, genVars>>

\* getattr(self.channels, s).match_name()
MatchName(s, failAt) ==
    /\ phase = "ready"
    /\ LET r == match_name(Self, s, hw, failAt)
       IN  /\ Store(r.self)
           /\ call' = Call("match_name", <<>>, s, failAt, r.exc)
    /\ UNCHANGED <<hw, phase, genVars>>

\* self.match_names()
MatchNames(failAt) ==
    /\ phase = "ready"
    /\ LET r == match_names(Self, hw, failAt)
       IN  /\ Store(r.self)
           /\ call' = Call("match_names", <<>>, "", failAt, r.exc)
    /\ UNCHANGED <<hw, phase, genVars>>

\* self.select_channels(chan_names)
SelectChannels(chan_names, failAt) ==
    /\ phase = "ready"
    /\ LET r == select_channels(Self, chan_names, hw, failAt)
       IN  /\ Store(r.self)
           /\ call' = Call("select_channels", chan_names, "", failAt, r.exc)
    /\ UNCHANGED <<hw, phase, genVars>>

\* Somebody outside the program writes the name PV of channel n.
Rename(n, v) ==
    /\ hw[n] # v
    /\ hw' = [hw EXCEPT ![n] = v]
    /\ call' = Call("rename", <<>>, "", 0, "none")
    /\ UNCHANGED <<phase, sname, read_attrs, configuration_attrs, hints, genVars>>

Next ==
    \/ \E f \in FailChoices : Construct(f)
    \/ \E s \in ComponentSet : \E f \in {0, ChNum(s)} : MatchName(s, f)
    \/ \E f \in FailChoices : MatchNames(f)
    \/ \E names \in RequestLists : \E f \in FailChoices : SelectChannels(names, f)
    \/ \E n \in Channels : \E v \in HwNames : Rename(n, v)

Spec == Init /\ [][Next]_vars

-----------------------------------------------------------------------------
(* The generators as a state machine: one loop iteration per step          *)

InitGen ==
    /\ hw = [n \in Channels |-> ""]
    /\ phase = "new"
    /\ sname = NewSelf.sname
    /\ read_attrs = NewSelf.read_attrs
    /\ configuration_attrs = NewSelf.configuration_attrs
    /\ hints = NewSelf.hints
    /\ call = NoCall
    /\ gen_family \in 1..Len(Families)
    /\ gen_i = 1
    /\ gen_defn = <<>>
    /\ gen_pc = "loop"

\* for i in range(1, 33): one pass through the loop body.
GenStep ==
    /\ gen_pc = "loop"
    /\ gen_i < RangeStop
    /\ LET f == Families[gen_family]
       IN  gen_defn' =
             IF f.gen = "_scaler_fields"
             THEN scaler_fields_step(gen_defn, f.cls, f.attr, f.field, f.kind, gen_i)
             ELSE sc_chans_step(gen_defn, f.attr, gen_i)
    /\ gen_i' = gen_i + 1
    /\ UNCHANGED <<gen_family, gen_pc, devVars>>

\* return defn
GenReturn ==
    /\ gen_pc = "loop"
    /\ gen_i >= RangeStop
    /\ gen_pc' = "done"
    /\ UNCHANGED <<gen_family, gen_i, gen_defn, devVars>>

NextGen == GenStep \/ GenReturn

SpecGen == InitGen /\ [][NextGen]_vars

-----------------------------------------------------------------------------
(* What the claims speak of                                                *)

\* The channels whose live hardware name is name.
LiveChannels(name) == {n \in Channels : hw[n] = name}

AllLive(names) == \A j \in 1..Len(names) : LiveChannels(names[j]) # {}

AttrOfChannel(n) == CHOOSE s \in ComponentSet : ChNum(s) = n

MaxOf(S) == CHOOSE n \in S : \A m \in S : m <= n

\* The identifier of the highest-numbered channel named name.
HighestAttr(name) == AttrOfChannel(MaxOf(LiveChannels(name)))

ExpectedSelection(names) ==
    <<"chan01">> \o [j \in 1..Len(names) |-> HighestAttr(names[j])]

\* The identifiers of the channels with a non-empty hardware name, ascending.
NamedChannelAttrs == SelectSeq(component_names, LAMBDA s : hw[ChNum(s)] # "")

\* The last call was select_channels, every read succeeded, every name is live.
ValidSelectCall ==
    /\ phase = "ready"
    /\ call.op = "select_channels"
    /\ call.failAt = 0
    /\ AllLive(call.names)

\* C1: select_channels(chan_names) with every requested name live ends with
\* the read set and the configuration read set both equal to ['chan01']
\* followed by the identifier each requested name resolves to, in caller order.
C1_SelectStoresSelection ==
    ValidSelectCall =>
        /\ call.exc = "none"
        /\ read_attrs = ExpectedSelection(call.names)
        /\ configuration_attrs = ExpectedSelection(call.names)

\* C2: select_channels with a name that is no channel's live name fails with
\* the channel-not-found error (RuntimeError) and leaves the read set and the
\* configuration read set as they were.
C2_BadNameRaisesNotFound ==
    [][ ( /\ phase = "ready"
          /\ call'.op = "select_channels"
          /\ call'.failAt = 0
          /\ \E j \in 1..Len(call'.names) : \A n \in Channels : hw'[n] # call'.names[j] )
        => ( /\ call'.exc = "RuntimeError"
             /\ read_attrs' = read_attrs
             /\ configuration_attrs' = configuration_attrs ) ]_vars

\* C3: right after construction the read set and the configuration read set
\* are the identifiers of the channels with a non-empty hardware name, in
\* ascending order.
C3_InitSelectsNamedChannels ==
    (phase = "ready" /\ call.op = "__init__") =>
        /\ read_attrs = NamedChannelAttrs
        /\ configuration_attrs = NamedChannelAttrs

\* C4: when several channels bear a requested name, select_channels raises no
\* error and every occurrence of the name selects the highest-numbered of them.
C4_DuplicateNameTakesHighest ==
    ( /\ ValidSelectCall
      /\ \E j \in 1..Len(call.names) : Cardinality(LiveChannels(call.names[j])) >= 2 )
    => /\ call.exc = "none"
       /\ Len(read_attrs) = 1 + Len(call.names)
       /\ \A j \in 1..Len(call.names) : read_attrs[j + 1] = HighestAttr(call.names[j])

C6_HardwareFailurePropagates ==
    [][ (call'.op = "select_channels" /\ call'.failAt # 0)
        => ( /\ call'.exc = "HardwareError"
             /\ read_attrs' = read_attrs
             /\ configuration_attrs' = configuration_attrs
             /\ hints' = hints ) ]_vars

\* A select_channels call failed on the hardware after part of the refresh.
C6_Witness ==
    /\ phase = "ready"
    /\ call.op = "select_channels"
    /\ call.exc = "HardwareError"
    /\ call.failAt > 1
    /\ \E s \in ComponentSet :
          ChNum(s) >= call.failAt /\ sname[s] # hw[ChNum(s)]
    /\ \A s \in ComponentSet :
          ChNum(s) < call.failAt => sname[s] = hw[ChNum(s)]

\* C7: match_name() sets the s signal's display identity to the live hardware
\* name and a second call right after it changes nothing; match_names() does so
\* for every channel, in ascending order (a failing read stops it there).
C7_MatchNameIdempotent ==
    [][ /\ (call'.op = "match_name" /\ call'.exc = "none")
           => sname' = [sname EXCEPT ![call'.s] = hw'[ChNum(call'.s)]]
        /\ (call'.op = "match_names")
           => \A s \in ComponentSet :
                 sname'[s] = IF call'.failAt = 0 \/ ChNum(s) < call'.failAt
                             THEN hw'[ChNum(s)]
                             ELSE sname[s]
        /\ call'.again => sname' = sname ]_vars

\* match_name() was called twice in succession on a named channel.
C7_Witness ==
    /\ phase = "ready"
    /\ call.op = "match_name"
    /\ call.again
    /\ hw[ChNum(call.s)] # ""
    /\ sname[call.s] = hw[ChNum(call.s)]

\* C9: a hardware rename changes no display identity, read set, configuration
\* read set or hints; match_name()/match_names() leave the read sets and the
\* hints alone; after construction the read sets change only in a
\* select_channels that returns normally.
C9_SelectionIsSnapshot ==
    [][ /\ (call'.op = "rename")
           => UNCHANGED <<sname, read_attrs, configuration_attrs, hints>>
        /\ (call'.op \in {"match_name", "match_names"})
           => UNCHANGED <<read_attrs, configuration_attrs, hints>>
        /\ ( /\ phase = "ready"
             /\ \/ read_attrs' # read_attrs
                \/ configuration_attrs' # configuration_attrs )
           => (call'.op = "select_channels" /\ call'.exc = "none") ]_vars

\* After some name refresh, a rename left a display identity behind the
\* hardware name; the read set is still the one construction chose.
C9_Witness ==
    /\ phase = "ready"
    /\ call.op = "rename"
    /\ \E s \in ComponentSet : sname[s] # hw[ChNum(s)]
    /\ \E s \in ComponentSet : sname[s] # DefaultSignalName(s)
    /\ read_attrs # <<>>

\* C10: once the device is constructed, the read set and the configuration
\* read set are equal as ordered lists.
C10_ReadSetsEqual ==
    phase = "ready" => read_attrs = configuration_attrs

\* A constructed device on which select_channels has been called.
C10_Witness ==
    /\ phase = "ready"
    /\ call.op = "select_channels"
    /\ read_attrs # <<>>
    /\ read_attrs = configuration_attrs

-----------------------------------------------------------------------------
(* The generators                                                          *)

Digit == <<"0", "1", "2", "3", "4", "5", "6", "7", "8", "9">>

\* Decimal numeral of 0 <= i <= 99, without and with a leading zero.
Numeral(i) ==
    IF i < 10 THEN Digit[i + 1] ELSE Digit[(i \div 10) + 1] \o Digit[(i % 10) + 1]
Numeral2(i) == Digit[(i \div 10) + 1] \o Digit[(i % 10) + 1]

Injective(seq, F(_)) ==
    \A a, b \in 1..Len(seq) : a # b => F(seq[a]) # F(seq[b])

KeyOf(e) == e.key
SuffixOf(e) == e.val.suffix
ChNumOfEntry(e) == e.val.ch_num

\* C8: over range(1, 33) a generator yields one entry per index, in ascending
\* order; entry i has key base+i and suffix field_base+i (direct fields) or
\* key 'chan' + two-digit i and channel index i (composite device); no two
\* entries share a key, a suffix or a channel index.
C8_GeneratedFieldsInjective ==
    /\ Len(gen_defn) = (IF gen_pc = "idle" THEN 0 ELSE gen_i - 1)
    /\ gen_pc = "done" => Len(gen_defn) = RangeStop - 1
    /\ Injective(gen_defn, KeyOf)
    /\ IF Families[gen_family].gen = "_scaler_fields"
       THEN /\ Injective(gen_defn, SuffixOf)
            /\ \A i \in 1..Len(gen_defn) :
                  /\ gen_defn[i].key = Families[gen_family].attr \o Numeral(i)
                  /\ gen_defn[i].val.suffix = Families[gen_family].field \o Numeral(i)
       ELSE /\ Injective(gen_defn, ChNumOfEntry)
            /\ \A i \in 1..Len(gen_defn) :
                  /\ gen_defn[i].key = "chan" \o Numeral2(i)
                  /\ gen_defn[i].val.ch_num = i

\* The composite device's generator has returned all 32 entries.
C8_Witness ==
    /\ gen_pc = "done"
    /\ Families[gen_family].gen = "_sc_chans"
    /\ Len(gen_defn) = 32
    /\ gen_defn[7].key = "chan07"
    /\ gen_defn[32].key = "chan32"

====
